---- MODULE Spec2Model ----
(***************************************************************************)
(* Reed-Solomon codec of reedsolo.py (class RSCodec): construction of the  *)
(* GF(q) tables, field and polynomial arithmetic, the systematic encoder   *)
(* and the errors-and-erasures decoder.                                    *)
(*                                                                         *)
(* Python lists are modelled as TLA+ sequences: Python index j is index    *)
(* j + 1 here.  The two tables gf_exp and gf_log are functions on          *)
(* 0 .. len-1, indexed exactly as in the source.                           *)
(***************************************************************************)
EXTENDS Integers, Sequences, FiniteSets, TLC

VARIABLES
    n, k,               \* RSCodec.n, RSCodec.k  (q = n + 1, nsym = n - k)
    gf_exp, gf_log,     \* RSCodec.gf_exp, RSCodec.gf_log
    cpc, ci, cx,        \* calc_gf_elements: position, loop index i, local x
    phase,              \* "idle", "channel", "received", "done"
    message,            \* the list the caller passed to rs_encode_msg
    message_after,      \* that list object once rs_encode_msg has finished
    enc_outcome,        \* "none", "ok" or the exception rs_encode_msg raised
    cw,                 \* the value rs_encode_msg returned
    sent,               \* the word put on the channel
    recv,               \* the word the caller passes to rs_correct_msg
    recv_after,         \* that list object once rs_correct_msg has finished
    outcome,            \* "none", "ok" or the exception rs_correct_msg raised
    result,             \* the value rs_correct_msg returned
    synd,               \* rs_correct_msg: the first syndrome vector computed
    msg_out,            \* rs_correct_msg: its working list when it finished
    path                \* rs_correct_msg: the statement it left through

vars == <<n, k, gf_exp, gf_log, cpc, ci, cx, phase, message,
          message_after,
          enc_outcome, cw, sent, recv, recv_after, outcome, result, synd,
          msg_out, path>>

fieldVars == <<gf_exp, gf_log, cpc, ci, cx>>

encVars == <<message, message_after, enc_outcome, cw>>

decVars == <<recv_after, outcome, result, synd, msg_out, path>>

(***************************************************************************)
(* Bounds of the model.                                                    *)
(***************************************************************************)
MaxFieldBits == 10      \* table construction is explored for q <= 2^MaxFieldBits
MaxMsgLen    == 1       \* longest message encoded and put on the channel
MaxEncLen    == 3       \* longest message encoded without a channel (fields up to 256)
MaxSendData  == 1       \* a zero-syndrome word on the channel has <= nsym + MaxSendData symbols
MaxWordLen   == 4       \* longest arbitrary word handed to rs_correct_msg

ERASED == -1            \* the negative erasure sentinel

(***************************************************************************)
(* Integer helpers (Python's ^, <<, & on non-negative ints, max, slices).  *)
(***************************************************************************)
RECURSIVE Xor(_, _)
Xor(a, b) ==
    IF a = 0 THEN b
    ELSE IF b = 0 THEN a
    ELSE (((a % 2) + (b % 2)) % 2) + (2 * Xor(a \div 2, b \div 2))

RECURSIVE Pow2(_)
Pow2(e) == IF e = 0 THEN 1 ELSE 2 * Pow2(e - 1)

\* x & q for q a power of two
BitSet(v, qq) == (v \div qq) % 2 = 1

Max2(a, b) == IF a > b THEN a ELSE b
Min2(a, b) == IF a < b THEN a ELSE b

\* s[lo:hi] for 0 <= lo, 0 <= hi (Python clips to the length)
PySlice(s, lo, hi) == SubSeq(s, lo + 1, Min2(hi, Len(s)))

\* s[:-c]; Python reads -0 as 0, so s[:-0] is the empty list
PyDropLast(s, c) == IF c = 0 THEN <<>> ELSE SubSeq(s, 1, Len(s) - c)

\* s[j] with Python's wrap-around of negative indices
PyAt(s, j) == IF j < 0 THEN s[Len(s) + j + 1] ELSE s[j + 1]

Zeros(len) == [j \in 1..len |-> 0]

RECURSIVE SeqMax(_)
SeqMax(s) == IF Len(s) = 1 THEN s[1] ELSE Max2(s[1], SeqMax(Tail(s)))

\* _gf_poly with the entry of GF(8) mistyped (15 is not primitive)
gf_poly_table_typo ==
    (4 :> 7) @@ (8 :> 15) @@ (16 :> 19) @@ (32 :> 37) @@ (64 :> 67) @@
    (128 :> 137) @@ (256 :> 285) @@ (512 :> 529) @@ (1024 :> 1033) @@
    (2048 :> 2053) @@ (4096 :> 4179) @@ (8192 :> 8219) @@
    (16384 :> 17475) @@ (32768 :> 32771) @@ (65536 :> 69643)

(***************************************************************************)
(* _gf_poly: the primitive polynomial of every supported field size.       *)
(***************************************************************************)
gf_poly_table ==
    (4 :> 7) @@ (8 :> 11) @@ (16 :> 19) @@ (32 :> 37) @@ (64 :> 67) @@
    (128 :> 137) @@ (256 :> 285) @@ (512 :> 529) @@ (1024 :> 1033) @@
    (2048 :> 2053) @@ (4096 :> 4179) @@ (8192 :> 8219) @@
    (16384 :> 17475) @@ (32768 :> 32771) @@ (65536 :> 69643)

q    == n + 1           \* RSCodec.q
nsym == n - k           \* RSCodec.nsym

(***************************************************************************)
(* calc_gf_elements, one loop iteration at a time.  A construction state   *)
(* is a record [exp, log, x, i, pc].                                       *)
(***************************************************************************)
GfStart(nn) ==
    [exp |-> [j \in 0..(2 * (nn + 1) - 1) |-> 1],
     log |-> [j \in 0..nn |-> 0],
     x   |-> 1,
     i   |-> 1,
     pc  |-> "loop1"]

\* x <<= 1; if x & q: x ^= poly
GfDouble(v, qq) ==
    IF BitSet(2 * v, qq) THEN Xor(2 * v, gf_poly_table[qq]) ELSE 2 * v

\* body of "for i in range(1, self.n)"
GfLoop1(st, nn) ==
    IF st.i < nn
    THEN LET nx == GfDouble(st.x, nn + 1)
         IN  [st EXCEPT !.x = nx, !.exp[st.i] = nx, !.log[nx] = st.i,
                        !.i = st.i + 1]
    ELSE [st EXCEPT !.pc = "loop2", !.i = nn]

\* body of "for i in range(self.n, self.q * 2)"
GfLoop2(st, nn) ==
    IF st.i < 2 * (nn + 1)
    THEN [st EXCEPT !.exp[st.i] = st.exp[st.i - nn], !.i = st.i + 1]
    ELSE [st EXCEPT !.pc = "done"]

GfStep(st, nn) == IF st.pc = "loop1" THEN GfLoop1(st, nn) ELSE GfLoop2(st, nn)

\* "cnt" steps in a row (split in halves to keep the evaluation shallow)
RECURSIVE GfRun(_, _, _)
GfRun(st, nn, cnt) ==
    IF cnt = 0 \/ st.pc = "done" THEN st
    ELSE IF cnt = 1 THEN GfStep(st, nn)
    ELSE GfRun(GfRun(st, nn, cnt \div 2), nn, cnt - (cnt \div 2))

\* the two loops take n - 1 and q + 1 iterations and one exit step each
calc_gf_elements(nn) == GfRun(GfStart(nn), nn, (nn - 1) + 1 + (nn + 2) + 1)

(***************************************************************************)
(* Field arithmetic on the tables of the instance.                         *)
(***************************************************************************)
gf_mul(x, y) ==
    IF x = 0 \/ y = 0 THEN 0 ELSE gf_exp[gf_log[x] + gf_log[y]]

DIVZERO == -2           \* stands for "raise ZeroDivisionError()"

gf_div(x, y) ==
    IF y = 0 THEN DIVZERO
    ELSE IF x = 0 THEN 0
    ELSE gf_exp[gf_log[x] + n - gf_log[y]]

(***************************************************************************)
(* Polynomial arithmetic, most significant coefficient first.              *)
(***************************************************************************)
gf_poly_scale(p, x) == [j \in 1..Len(p) |-> gf_mul(p[j], x)]

\* both operands are right-aligned in r
gf_poly_add(p, r) ==
    LET len == Max2(Len(p), Len(r))
        pv(j) == IF j > len - Len(p) THEN p[j - (len - Len(p))] ELSE 0
        rv(j) == IF j > len - Len(r) THEN r[j - (len - Len(r))] ELSE 0
    IN  [j \in 1..len |-> Xor(pv(j), rv(j))]

\* XOR of gf_mul(p[i], r[j]) over the pairs with i + j = t (0-based), j = lo..
RECURSIVE MulAcc(_, _, _, _)
MulAcc(p, r, t, j) ==
    IF j >= Len(r) THEN 0
    ELSE LET rest == MulAcc(p, r, t, j + 1)
         IN  IF t - j >= 0 /\ t - j < Len(p)
             THEN Xor(gf_mul(p[t - j + 1], r[j + 1]), rest)
             ELSE rest

\* r[i + j] ^= gf_mul(p[i], q[j]) for every j, i
gf_poly_mul(p, r) ==
    [t \in 1..(Len(p) + Len(r) - 1) |-> MulAcc(p, r, t - 1, 0)]

\* Horner: y = p[0]; y = gf_mul(y, x) ^ p[i].  p is not empty.
RECURSIVE EvalFrom(_, _, _, _)
EvalFrom(p, x, y, j) ==
    IF j > Len(p) THEN y ELSE EvalFrom(p, x, Xor(gf_mul(y, x), p[j]), j + 1)

gf_poly_eval(p, x) == EvalFrom(p, x, p[1], 2)

(***************************************************************************)
(* Encoder.                                                                *)
(***************************************************************************)
\* g = [1]; for i in range(1, nsym + 1): g = gf_poly_mul(g, [1, gf_exp[i]])
RECURSIVE GenFrom(_, _, _)
GenFrom(g, i, ns) ==
    IF i > ns THEN g ELSE GenFrom(gf_poly_mul(g, <<1, gf_exp[i]>>), i + 1, ns)

rs_generator_poly(ns) == GenFrom(<<1>>, 1, ns)

\* a bytearray element holds 0..255; storing anything else raises ValueError
ByteOK(v) == v >= 0 /\ v <= 255

RECURSIVE BytesOK(_)
BytesOK(s) == IF s = <<>> THEN TRUE ELSE ByteOK(Head(s)) /\ BytesOK(Tail(s))

\* for j in range(0, len(gen)): msg_out[i + j] ^= gf_mul(gen[j], coef)
RECURSIVE EncInner(_, _, _, _, _)
EncInner(st, gen, coef, i, j) ==
    IF st.err \/ j >= Len(gen) THEN st
    ELSE LET v == Xor(st.buf[i + j + 1], gf_mul(gen[j + 1], coef))
         IN  IF ByteOK(v)
             THEN EncInner([st EXCEPT !.buf[i + j + 1] = v], gen, coef, i, j + 1)
             ELSE [st EXCEPT !.err = TRUE]

\* for i in range(0, len(msg_in)): coef = msg_out[i]; if coef != 0: ...
RECURSIVE EncOuter(_, _, _, _)
EncOuter(st, gen, len, i) ==
    IF st.err \/ i >= len THEN st
    ELSE LET coef == st.buf[i + 1]
         IN  IF coef # 0
             THEN EncOuter(EncInner(st, gen, coef, i, 0), gen, len, i + 1)
             ELSE EncOuter(st, gen, len, i + 1)

\* msg_out[:len(msg_in)] = msg_in
SetPrefix(buf, msg_in) ==
    [j \in 1..Len(buf) |-> IF j <= Len(msg_in) THEN msg_in[j] ELSE buf[j]]

rs_encode_msg(msg_in, ns) ==
    IF Len(msg_in) + ns > n
    THEN [outcome |-> "ValueError: message too long", result |-> <<>>]
    ELSE IF ~BytesOK(msg_in)
    THEN [outcome |-> "ValueError: byte must be in range(0, 256)", result |-> <<>>]
    ELSE LET gen  == rs_generator_poly(ns)
             buf0 == SetPrefix(Zeros(Len(msg_in) + ns), msg_in)
             st   == EncOuter([buf |-> buf0, err |-> FALSE], gen, Len(msg_in), 0)
         IN  IF st.err
             THEN [outcome |-> "ValueError: byte must be in range(0, 256)",
                   result |-> <<>>]
             ELSE [outcome |-> "ok", result |-> SetPrefix(st.buf, msg_in)]

rs_calc_syndromes(msg, ns) ==
    [j \in 1..ns |-> gf_poly_eval(msg, gf_exp[j - 1])]

(***************************************************************************)
(* Decoder.  Positions are Python (0-based) indices into the word.         *)
(***************************************************************************)
\* one pass of the inner loop followed by fsynd.pop()
ForneyFold(fsynd, x) ==
    [j \in 1..(Len(fsynd) - 1) |-> Xor(gf_mul(fsynd[j], x), fsynd[j + 1])]

RECURSIVE ForneyFrom(_, _, _, _)
ForneyFrom(fsynd, pos, nmess, i) ==
    IF i > Len(pos) THEN fsynd
    ELSE ForneyFrom(ForneyFold(fsynd, gf_exp[nmess - 1 - pos[i]]),
                    pos, nmess, i + 1)

rs_forney_syndromes(sy, pos, nmess) == ForneyFrom(sy, pos, nmess, 1)

\* delta ^= gf_mul(err_poly[len(err_poly) - 1 - j], synd[i - j]), j = 1..
RECURSIVE BMDelta(_, _, _, _, _)
BMDelta(delta, err_poly, sy, i, j) ==
    IF j >= Len(err_poly) THEN delta
    ELSE BMDelta(Xor(delta, gf_mul(PyAt(err_poly, Len(err_poly) - 1 - j),
                                   PyAt(sy, i - j))),
                 err_poly, sy, i, j + 1)

\* body of "for i in range(0, len(synd))" of the Berlekamp-Massey loop
BMStep(st, sy, i) ==
    LET old1  == Append(st.old_poly, 0)
        delta == BMDelta(PyAt(sy, i), st.err_poly, sy, i, 1)
    IN  IF delta = 0
        THEN [err_poly |-> st.err_poly, old_poly |-> old1]
        ELSE IF Len(old1) > Len(st.err_poly)
        THEN LET new_poly == gf_poly_scale(old1, delta)
                 old2     == gf_poly_scale(st.err_poly, gf_div(1, delta))
             IN  [err_poly |-> gf_poly_add(new_poly, gf_poly_scale(old2, delta)),
                  old_poly |-> old2]
        ELSE [err_poly |-> gf_poly_add(st.err_poly, gf_poly_scale(old1, delta)),
              old_poly |-> old1]

RECURSIVE BMFrom(_, _, _)
BMFrom(st, sy, i) ==
    IF i >= Len(sy) THEN st ELSE BMFrom(BMStep(st, sy, i), sy, i + 1)

\* for i in range(0, nmess): if eval(err_poly, gf_exp[n - i]) == 0: append
RECURSIVE RootsFrom(_, _, _, _)
RootsFrom(err_poly, nmess, i, err_pos) ==
    IF i >= nmess THEN err_pos
    ELSE RootsFrom(err_poly, nmess, i + 1,
                   IF gf_poly_eval(err_poly, gf_exp[n - i]) = 0
                   THEN Append(err_pos, nmess - 1 - i)
                   ELSE err_pos)

\* the bound test without the factor two
TooManyErrors_NotDoubled(errs, sy) == errs > Len(sy)

\* if errs * 2 > len(synd): raise ReedSolomonError("Too many errors ...")
TooManyErrors(errs, sy) == errs * 2 > Len(sy)

rs_find_errors(sy, nmess) ==
    LET bm   == BMFrom([err_poly |-> <<1>>, old_poly |-> <<1>>], sy, 0)
        errs == Len(bm.err_poly) - 1
    IN  IF TooManyErrors(errs, sy)
        THEN [status |-> "TooManyErrors", err_pos |-> <<>>]
        ELSE LET err_pos == RootsFrom(bm.err_poly, nmess, 0, <<>>)
             IN  IF Len(err_pos) # errs
                 THEN [status |-> "None", err_pos |-> <<>>]
                 ELSE [status |-> "ok", err_pos |-> err_pos]

\* q = [1]; for each position: q = gf_poly_mul(q, [gf_exp[len(msg)-1-pos], 1])
RECURSIVE LocatorFrom(_, _, _, _)
LocatorFrom(loc, pos, len, i) ==
    IF i > Len(pos) THEN loc
    ELSE LocatorFrom(gf_poly_mul(loc, <<gf_exp[len - 1 - pos[i]], 1>>),
                     pos, len, i + 1)

Reverse(s) == [j \in 1..Len(s) |-> s[Len(s) + 1 - j]]

\* s[0 : len(s) : 2]: the derivative taken from the wrong parity
OddTerms_FromZero(s) ==
    [j \in 1..((Len(s) + 1) \div 2) |-> s[2 * (j - 1) + 1]]

\* s[len(s) & 1 : len(s) : 2]
OddTerms(s) ==
    LET start == Len(s) % 2
        cnt   == (Len(s) - start + 1) \div 2
    IN  [j \in 1..cnt |-> s[start + 2 * (j - 1) + 1]]

\* the corrections loop; st = [msg, err], err set when gf_div raised
RECURSIVE ErrataFrom(_, _, _, _, _)
ErrataFrom(st, p, dq, pos, i) ==
    IF st.err \/ i > Len(pos) THEN st
    ELSE LET x == gf_exp[pos[i] + q - Len(st.msg)]
             y == gf_poly_eval(p, x)
             z == gf_poly_eval(dq, gf_mul(x, x))
             c == gf_div(y, gf_mul(x, z))
         IN  IF c = DIVZERO
             THEN [st EXCEPT !.err = TRUE]
             ELSE ErrataFrom([st EXCEPT !.msg[pos[i] + 1] = Xor(@, c)],
                             p, dq, pos, i + 1)

rs_correct_errata(msg, sy, pos) ==
    LET loc  == LocatorFrom(<<1>>, pos, Len(msg), 1)
        prod == gf_poly_mul(Reverse(PySlice(sy, 0, Len(pos))), loc)
        p    == PySlice(prod, Len(prod) - Len(pos), Len(prod))
        dq   == OddTerms(loc)
    IN  ErrataFrom([msg |-> msg, err |-> FALSE], p, dq, pos, 1)

\* msg_out = msg_in: the working list is the caller's list
ListCopy_Alias(obj) == [ref |-> "same", val |-> obj]

\* msg_out = list(msg_in): a new list object holding the same elements
ListCopy(obj) == [ref |-> "new", val |-> obj]

\* the elements of the caller's list once the callee has left its working
\* list holding "final"
CallerList(copy, original, final) ==
    IF copy.ref = "new" THEN original ELSE final

\* for i in range(0, len(msg_out)): if msg_out[i] < 0: erase_pos.append(i)
RECURSIVE ErasePos(_, _)
ErasePos(word, i) ==
    IF i > Len(word) THEN <<>>
    ELSE IF word[i] < 0 THEN <<i - 1>> \o ErasePos(word, i + 1)
    ELSE ErasePos(word, i + 1)

\* ... msg_out[i] = 0
ZeroErased(word) == [j \in 1..Len(word) |-> IF word[j] < 0 THEN 0 ELSE word[j]]

\* the erasure test off by one
TooManyErasures_AtLeast(erase_pos, ns) == Len(erase_pos) >= ns

\* if len(erase_pos) > nsym: raise ReedSolomonError("Too many erasures ...")
TooManyErasures(erase_pos, ns) == Len(erase_pos) > ns

Raised(exc, where, copy, msg_in, work, sy) ==
    [outcome |-> exc, result |-> <<>>, msg_out |-> work, synd |-> sy,
     path |-> where, caller |-> CallerList(copy, msg_in, work)]

Returned(where, copy, msg_in, work, sy, ns) ==
    [outcome |-> "ok", result |-> PyDropLast(work, ns), msg_out |-> work,
     synd |-> sy, path |-> where, caller |-> CallerList(copy, msg_in, work)]

rs_correct_msg(msg_in, ns) ==
    IF Len(msg_in) > n
    THEN [outcome |-> "ValueError: message too long", result |-> <<>>,
          msg_out |-> <<>>, synd |-> <<>>, path |-> "length",
          caller |-> msg_in]
    ELSE
    LET copy      == ListCopy(msg_in)
        erase_pos == ErasePos(copy.val, 1)
        work      == ZeroErased(copy.val)
    IN  IF TooManyErasures(erase_pos, ns)
        THEN Raised("ReedSolomonError: Too many erasures to correct",
                    "erasures", copy, msg_in, work, <<>>)
        ELSE IF ns > 0 /\ work = <<>>
        THEN Raised("IndexError", "syndromes", copy, msg_in, work, <<>>)
        ELSE
        LET sy == rs_calc_syndromes(work, ns)
        IN  IF sy = <<>>
            THEN Raised("ValueError: max() arg is an empty sequence",
                        "syndromes", copy, msg_in, work, sy)
            ELSE IF SeqMax(sy) = 0
            THEN Returned("short-circuit", copy, msg_in, work, sy, ns)
            ELSE
            LET fsynd == rs_forney_syndromes(sy, erase_pos, Len(work))
                found == rs_find_errors(fsynd, Len(work))
            IN  IF found.status = "TooManyErrors"
                THEN Raised("ReedSolomonError: Too many errors to correct",
                            "locator", copy, msg_in, work, sy)
                ELSE IF found.status = "None"
                THEN Raised("ReedSolomonError: Could not locate error",
                            "roots", copy, msg_in, work, sy)
                ELSE
                LET fixed == rs_correct_errata(work, sy,
                                               erase_pos \o found.err_pos)
                IN  IF fixed.err
                    THEN Raised("ZeroDivisionError", "corrector",
                                copy, msg_in, fixed.msg, sy)
                    ELSE IF SeqMax(rs_calc_syndromes(fixed.msg, ns)) > 0
                    THEN Raised("ReedSolomonError: Could not correct message",
                                "verification", copy, msg_in, fixed.msg, sy)
                    ELSE Returned("corrected", copy, msg_in, fixed.msg, sy, ns)

(***************************************************************************)
(* The codec as a state machine: one instance, a caller that encodes a     *)
(* message or picks a word, a channel that changes or erases symbols, and  *)
(* the caller decoding what arrives.                                       *)
(***************************************************************************)
Configs == {<<3, 1>>, <<3, 2>>, <<3, 3>>, <<7, 3>>, <<7, 4>>}

WideConfigs == {<<511, 509>>}

EncoderConfigs == Configs \cup {<<7, 5>>} \cup WideConfigs

FieldSizes == {qq \in DOMAIN gf_poly_table : qq <= Pow2(MaxFieldBits)}

Symbols == 0..(q - 1)

WordsOver(S, lo, hi) == UNION {[1..len -> S] : len \in lo..hi}

Messages == WordsOver(Symbols, 1, MaxMsgLen)

\* every single symbol of the field; longer messages in the byte-sized fields
EncoderMessages == WordsOver(Symbols, 1, IF q <= 256 THEN MaxEncLen ELSE 1)

AllZero(s) == \A j \in 1..Len(s) : s[j] = 0

\* the words the decoder takes for undamaged: every syndrome is zero
ZeroSyndromeWords ==
    {c \in WordsOver(Symbols, nsym + 1, Min2(n, nsym + MaxSendData)) :
        AllZero(rs_calc_syndromes(c, nsym))}

ReceivedWords == WordsOver(Symbols \cup {ERASED}, 0, MaxWordLen)

Errors(s, r)   == Cardinality({j \in 1..Len(r) : r[j] >= 0 /\ r[j] # s[j]})
Erasures(r)    == Cardinality({j \in 1..Len(r) : r[j] < 0})
Errata(s, r)   == 2 * Errors(s, r) + Erasures(r)

NoCall ==
    /\ message = <<>> /\ message_after = <<>> /\ enc_outcome = "none" /\ cw = <<>>
    /\ sent = <<>> /\ recv = <<>> /\ recv_after = <<>>
    /\ outcome = "none" /\ result = <<>> /\ synd = <<>> /\ msg_out = <<>>
    /\ path = "none"

Constructed(c) ==
    LET st == calc_gf_elements(c[1])
    IN  /\ n = c[1] /\ k = c[2]
        /\ gf_exp = st.exp /\ gf_log = st.log
        /\ cpc = st.pc /\ ci = st.i /\ cx = st.x

Init == /\ \E c \in Configs : Constructed(c)
        /\ phase = "idle"
        /\ NoCall

InitEncoder == /\ \E c \in EncoderConfigs : Constructed(c)
               /\ phase = "idle"
               /\ NoCall

\* encode_block
Encode(m) ==
    /\ phase = "idle"
    /\ LET r == rs_encode_msg(m, nsym)
       IN  /\ message' = m
           /\ message_after' = m
           /\ enc_outcome' = r.outcome
           /\ cw' = r.result
           /\ sent' = r.result
           /\ recv' = r.result
           /\ phase' = IF r.outcome = "ok" THEN "channel" ELSE "done"
    /\ UNCHANGED <<n, k, fieldVars, decVars>>

\* a word with all-zero syndromes is put on the channel
Send(c) ==
    /\ phase = "idle"
    /\ sent' = c
    /\ recv' = c
    /\ phase' = "channel"
    /\ UNCHANGED <<n, k, fieldVars, encVars, decVars>>

\* the channel changes the symbol at one position; it damages a word no
\* further than 2 * errors + erasures <= nsym (words damaged beyond that
\* reach the decoder through Receive)
Corrupt(j, v) ==
    /\ phase = "channel"
    /\ recv[j] = sent[j]
    /\ v # sent[j]
    /\ Errata(sent, [recv EXCEPT ![j] = v]) <= nsym
    /\ recv' = [recv EXCEPT ![j] = v]
    /\ UNCHANGED <<n, k, fieldVars, encVars, decVars, phase, sent>>

\* the channel loses the symbol at one position
Erase(j) ==
    /\ phase = "channel"
    /\ recv[j] = sent[j]
    /\ Errata(sent, [recv EXCEPT ![j] = ERASED]) <= nsym
    /\ recv' = [recv EXCEPT ![j] = ERASED]
    /\ UNCHANGED <<n, k, fieldVars, encVars, decVars, phase, sent>>

\* the caller holds an arbitrary word
Receive(w) ==
    /\ phase = "idle"
    /\ recv' = w
    /\ phase' = "received"
    /\ UNCHANGED <<n, k, fieldVars, encVars, decVars, sent>>

\* decode_block
Decode ==
    /\ phase \in {"channel", "received"}
    /\ LET r == rs_correct_msg(recv, nsym)
       IN  /\ recv_after' = r.caller
           /\ outcome' = r.outcome
           /\ result' = r.result
           /\ synd' = r.synd
           /\ msg_out' = r.msg_out
           /\ path' = r.path
    /\ phase' = "done"
    /\ UNCHANGED <<n, k, fieldVars, encVars, sent, recv>>

\* the caller drops the words of the last call; the instance lives on
Reset ==
    /\ phase = "done"
    /\ phase' = "idle"
    /\ message' = <<>> /\ message_after' = <<>> /\ enc_outcome' = "none" /\ cw' = <<>>
    /\ sent' = <<>> /\ recv' = <<>> /\ recv_after' = <<>>
    /\ outcome' = "none" /\ result' = <<>> /\ synd' = <<>> /\ msg_out' = <<>>
    /\ path' = "none"
    /\ UNCHANGED <<n, k, fieldVars>>

Next ==
    \/ phase = "idle" /\ \E m \in Messages : Encode(m)
    \/ phase = "idle" /\ \E c \in ZeroSyndromeWords : Send(c)
    \/ phase = "channel" /\ \E j \in 1..Len(recv) : \E v \in Symbols : Corrupt(j, v)
    \/ phase = "channel" /\ \E j \in 1..Len(recv) : Erase(j)
    \/ phase = "idle" /\ \E w \in ReceivedWords : Receive(w)
    \/ Decode
    \/ Reset

Spec == Init /\ [][Next]_vars

(***************************************************************************)
(* The decoder behind the channel: words it takes for undamaged, damaged   *)
(* within the bound.                                                       *)
(***************************************************************************)
NextDecoder ==
    \/ phase = "idle" /\ \E c \in ZeroSyndromeWords : Send(c)
    \/ phase = "channel" /\ \E j \in 1..Len(recv) : \E v \in Symbols : Corrupt(j, v)
    \/ phase = "channel" /\ \E j \in 1..Len(recv) : Erase(j)
    \/ Decode
    \/ Reset

SpecDecoder == Init /\ [][NextDecoder]_vars

(***************************************************************************)
(* Calls on one instance with arguments of the caller's choosing: messages *)
(* to encode, arbitrary words to decode.                                   *)
(***************************************************************************)
NextCalls ==
    \/ phase = "idle" /\ \E m \in Messages : Encode(m)
    \/ phase = "idle" /\ \E w \in ReceivedWords : Receive(w)
    \/ Decode
    \/ Reset

SpecCalls == Init /\ [][NextCalls]_vars

(***************************************************************************)
(* The encoder on its own, fields above 256 elements included: a message  *)
(* is encoded and the codeword decoded as it is.                           *)
(***************************************************************************)
NextEncoder ==
    \/ phase = "idle" /\ \E m \in EncoderMessages : Encode(m)
    \/ Decode
    \/ Reset

SpecEncoder == InitEncoder /\ [][NextEncoder]_vars

(***************************************************************************)
(* Construction of the tables, for every supported field size within the   *)
(* bound, one loop iteration per step.                                     *)
(***************************************************************************)
InitField ==
    /\ \E qq \in FieldSizes :
          LET st == GfStart(qq - 1)
          IN  /\ n = qq - 1 /\ k = qq - 2
              /\ gf_exp = st.exp /\ gf_log = st.log
              /\ cpc = st.pc /\ ci = st.i /\ cx = st.x
    /\ phase = "idle"
    /\ NoCall

FieldState == [exp |-> gf_exp, log |-> gf_log, x |-> cx, i |-> ci, pc |-> cpc]

FieldAssign(st) ==
    /\ gf_exp' = st.exp /\ gf_log' = st.log
    /\ cx' = st.x /\ ci' = st.i /\ cpc' = st.pc
    /\ UNCHANGED <<n, k, phase, encVars, decVars, sent, recv>>

FieldLoop1 == cpc = "loop1" /\ FieldAssign(GfLoop1(FieldState, n))

FieldLoop2 == cpc = "loop2" /\ FieldAssign(GfLoop2(FieldState, n))

NextField == FieldLoop1 \/ FieldLoop2

SpecField == InitField /\ [][NextField]_vars

(***************************************************************************)
(* Vocabulary of the properties.                                           *)
(***************************************************************************)
Encoded == enc_outcome # "none"
Decoded == outcome # "none"

\* a message of the length the codec is configured for
ValidMessage == Len(message) >= 1 /\ Len(message) <= k

\* the decoder was handed exactly what the encoder returned
Undamaged == Decoded /\ enc_outcome = "ok" /\ ValidMessage /\ recv = cw

Taxonomy ==
    {"ReedSolomonError: Too many erasures to correct",
     "ReedSolomonError: Too many errors to correct",
     "ReedSolomonError: Could not locate error",
     "ReedSolomonError: Could not correct message"}

\* positions that are not erased and where the corrected word differs
Changed(r, w) == Cardinality({j \in 1..Len(r) : r[j] >= 0 /\ w[j] # r[j]})

\* remainder of a(x) divided by the monic g(x), by long division
RECURSIVE PolyRem(_, _)
PolyRem(a, g) ==
    IF Len(a) < Len(g) THEN a
    ELSE PolyRem(Tail([j \in 1..Len(a) |->
                         IF j <= Len(g) THEN Xor(a[j], gf_mul(g[j], a[1]))
                         ELSE a[j]]), g)

\* g is the monic polynomial of degree ns with the roots alpha^1 .. alpha^ns
IsGenerator(g, ns) ==
    /\ Len(g) = ns + 1
    /\ g[1] = 1
    /\ \A e \in 1..ns : gf_poly_eval(g, gf_exp[e]) = 0

\* cw is m followed by the remainder of m(x) * x^ns by the generator
IsSystematic(m, codeword, ns) ==
    LET g == rs_generator_poly(ns)
    IN  /\ IsGenerator(g, ns)
        /\ Len(codeword) = Len(m) + ns
        /\ SubSeq(codeword, 1, Len(m)) = m
        /\ codeword = m \o PolyRem(m \o Zeros(ns), g)
        /\ AllZero(PolyRem(codeword, g))

\* a word with zero syndromes reached the decoder with 2e + s <= nsym
WithinBound ==
    /\ Decoded
    /\ Len(sent) >= nsym + 1 /\ Len(sent) <= n
    /\ AllZero(rs_calc_syndromes(sent, nsym))
    /\ Errata(sent, recv) <= nsym

(***************************************************************************)
(* C1.  Round trip: for every configuration and every message m with       *)
(* 1 <= len(m) <= k, decoding the undamaged output of the encoder succeeds *)
(* and returns exactly m.                                                  *)
(***************************************************************************)
C1_RoundTrip == Undamaged => (outcome = "ok" /\ result = message)

(***************************************************************************)
(* C2.  Combined correction bound: a codeword of the encoder that reaches  *)
(* the decoder with e changed symbols and s erased positions,              *)
(* 2*e + s <= nsym, is decoded to the original message.                    *)
(***************************************************************************)
C2_CombinedBound ==
    (Decoded /\ enc_outcome = "ok" /\ ValidMessage /\ Errata(cw, recv) <= nsym)
        => (outcome = "ok" /\ result = message)

(***************************************************************************)
(* C3.  Systematic remainder encoding: for every message m over [0, q)     *)
(* with len(m) + nsym <= n, rs_encode_msg returns m followed by the nsym   *)
(* coefficients of the remainder of m(x) * x^nsym by the generator         *)
(* polynomial with the roots alpha^1 .. alpha^nsym.                        *)
(***************************************************************************)
C3_SystematicRemainder ==
    (Encoded /\ Len(message) + nsym <= n)
        => (enc_outcome = "ok" /\ IsSystematic(message, cw, nsym))

\* the same in the fields whose symbols fit a byte
SystematicInByteFields ==
    (Encoded /\ Len(message) + nsym <= n /\ q <= 256)
        => (enc_outcome = "ok" /\ IsSystematic(message, cw, nsym))

SystematicInByteFieldsSeen ==
    /\ enc_outcome = "ok" /\ q <= 256 /\ nsym >= 2 /\ Len(message) >= 2
    /\ \A j \in 1..Len(cw) : cw[j] # 0

(***************************************************************************)
(* C4.  No-error short-circuit: the syndromes of an undamaged codeword of  *)
(* the encoder are all zero, and the decoder returns through the           *)
(* all-zero-syndrome exit without running the locator or the corrector.    *)
(***************************************************************************)
C4_NoErrorShortCircuit ==
    Undamaged => (/\ Len(synd) = nsym
                  /\ AllZero(synd)
                  /\ path = "short-circuit")

(***************************************************************************)
(* C5.  TooManyErasures: for a received word of length <= n the decoder    *)
(* fails with "Too many erasures to correct" exactly when more than nsym   *)
(* positions hold the sentinel, and it does so before any syndrome is      *)
(* computed.                                                               *)
(***************************************************************************)
C5_TooManyErasuresIff ==
    (Decoded /\ Len(recv) <= n)
        => /\ (outcome = "ReedSolomonError: Too many erasures to correct")
                <=> (Erasures(recv) > nsym)
           /\ (outcome = "ReedSolomonError: Too many erasures to correct")
                => (path = "erasures" /\ synd = <<>>)

C5_Seen ==
    /\ outcome = "ReedSolomonError: Too many erasures to correct"
    /\ nsym >= 1
    /\ \E j \in 1..Len(recv) : recv[j] > 0

(***************************************************************************)
(* C6.  Field tables: once construction has finished, exp[log[x]] = x for  *)
(* every nonzero x, log maps the nonzero elements one-to-one onto [0, n),  *)
(* and exp[i] = exp[i - n] for every table index i >= n.                   *)
(***************************************************************************)
C6_FieldTables ==
    cpc = "done"
        => /\ \A x \in 1..(q - 1) : gf_exp[gf_log[x]] = x
           /\ \A x \in 1..(q - 1) : gf_log[x] >= 0 /\ gf_log[x] < n
           /\ \A x, y \in 1..(q - 1) : gf_log[x] = gf_log[y] => x = y
           /\ \A e \in 0..(n - 1) : gf_log[gf_exp[e]] = e
           /\ \A j \in DOMAIN gf_exp : j >= n => gf_exp[j] = gf_exp[j - n]

C6_Seen == cpc = "done" /\ q = Pow2(MaxFieldBits)

(***************************************************************************)
(* C7.  Decode outcomes stay inside the taxonomy: for a received word of   *)
(* length nsym+1 .. n the decoder returns a message or fails with one of   *)
(* the four decoding errors; ZeroDivisionError never surfaces.             *)
(***************************************************************************)
C7_OutcomesInTaxonomy ==
    (Decoded /\ Len(recv) >= nsym + 1 /\ Len(recv) <= n)
        => (outcome = "ok" \/ outcome \in Taxonomy)

(***************************************************************************)
(* C8.  No mutation: in every state reached by any sequence of calls the   *)
(* tables are the tables built at construction, and the sequence passed to *)
(* each call is what it was before the call, whether the call returned or  *)
(* raised.                                                                 *)
(***************************************************************************)
C8_NoMutation ==
    /\ gf_exp = calc_gf_elements(n).exp
    /\ gf_log = calc_gf_elements(n).log
    /\ Encoded => message_after = message
    /\ Decoded => recv_after = recv

\* a call that failed after it had changed its working list
C8_Seen ==
    /\ Decoded /\ outcome # "ok"
    /\ Len(msg_out) = Len(recv) /\ msg_out # ZeroErased(recv)

(***************************************************************************)
(* C9.  Verified bounded-distance decoding: whenever the decoder returns   *)
(* for a word with s erased positions, the corrected word has all-zero     *)
(* syndromes, the result is that word without its last nsym symbols, and   *)
(* the word differs from the received one in at most floor((nsym - s) / 2) *)
(* of the positions that were not erased.                                  *)
(***************************************************************************)
C9_VerifiedDecoding ==
    outcome = "ok"
        => /\ Len(msg_out) = Len(recv)
           /\ AllZero(rs_calc_syndromes(msg_out, nsym))
           /\ result = SubSeq(msg_out, 1, Len(msg_out) - nsym)
           /\ Erasures(recv) <= nsym
           /\ 2 * Changed(recv, msg_out) <= nsym - Erasures(recv)

C9_Seen ==
    /\ outcome = "ok" /\ path = "corrected"
    /\ Changed(recv, msg_out) >= 1
    /\ Erasures(recv) >= 1

====
